---- MODULE Spec2Model ----
(***************************************************************************)
(* State-machine model of the RepCoin backend (backend/server.py): the     *)
(* in-memory champions board, the in-memory demo-user store, and the       *)
(* document-store collections (users, reps, sessions) with the handlers    *)
(* that read and write them.  Every handler is one action; `last` records  *)
(* the request just served, the state it found and the HTTP answer.        *)
(***************************************************************************)
EXTENDS Integers, Sequences, FiniteSets

VARIABLES
    champions,    \* server.py:40  champions[kind] -> Champion record
    user_store,   \* server.py:30  user_store["demo_user"]
    users,        \* server.py:24  db["users"]: _id -> rep
    reps,         \* db.reps: the Rep documents, in insertion order
    sessions,     \* db.sessions: the WorkoutSession documents
    created,      \* history: number of successful inserts, per kind of record
    purchased,    \* history: items whose purchase answered success=True
    last,         \* history: the last request, the state before it, its answer
    EMERGENT_LLM_KEY, \* server.py:27  the inference credential ("" when unset)
    tasks,        \* create_rep handlers suspended at their await, by task id
    calls,        \* history: completed add_rep calls, create_rep calls whose
                  \* insert succeeded, points debited by purchases
    llm           \* the inference collaborator: what send_message does when
                  \* awaited (a reply text, or an exception raised)

vars == <<champions, user_store, users, reps, sessions, created, purchased, last,
          EMERGENT_LLM_KEY, tasks, calls, llm>>

(***************************** bounds and inputs ***************************)

\* Largest rep count and elapsed time a submitted attempt carries.
MaxReps == 2
MaxTime == 1
\* rep_points is not incremented past this value.
MaxPoints == 150
\* Largest number of Rep / WorkoutSession documents in the store.
MaxStoredReps == 2
MaxStoredSessions == 2
\* Largest rep counter of a user document.
MaxUserRep == 2
\* Interleaved runs: create_rep handlers in flight at once, and rep_points
\* increments requested after the start of the run.
MaxTasks == 2
MaxRequests == 2

None == "None"

Kinds == {"pushup", "situp"}
\* exercise_type is a free string: one value outside the champions board.
ExerciseTypes == Kinds \cup {"plank"}

\* reps_completed and time_seconds are plain ints: negative values are accepted.
RepsValues == -1 .. MaxReps
TimeValues == -1 .. MaxTime

\* (player_name, player_photo) of the attempts; the photo is optional.
Players == {[name |-> "ann", photo |-> None], [name |-> "bob", photo |-> "img"]}

\* The value datetime.utcnow().isoformat() produces (never None).
Timestamps == {"t1"}

Attempts ==
    { [exercise_type |-> k, reps_completed |-> r, time_seconds |-> t,
       player_name |-> p.name, player_photo |-> p.photo] :
        k \in ExerciseTypes, r \in RepsValues, t \in TimeValues, p \in Players }

(****************************** initial state ******************************)

Placeholder ==
    [champion_name |-> "Be the first!", champion_photo |-> None,
     best_reps |-> 0, best_time_seconds |-> 0, date_achieved |-> None]

InitChampions == [k \in Kinds |-> Placeholder]

InitUserStore ==
    [rep_points |-> 0, badges_unlocked |-> FALSE, premium_unlocked |-> FALSE]

NoRequest == [op |-> "none", status |-> 0]

\* os.environ.get('EMERGENT_LLM_KEY', ''): unset, or some key.
LlmKeys == {"", "sk-key"}

NoCalls == [add_rep |-> 0, create_rep |-> 0, debited |-> 0]

\* No call of the collaborator: nothing raised, no reply.
NotSent == [raised |-> FALSE, response |-> << >>, e |-> [type |-> "", args |-> ""]]

Init ==
    /\ champions = InitChampions
    /\ user_store = InitUserStore
    /\ users = [u \in {} |-> 0]
    /\ reps = << >>
    /\ sessions = << >>
    /\ created = [pushup |-> 0, situp |-> 0, coins |-> 0, sessions |-> 0]
    /\ purchased = {}
    /\ last = NoRequest
    /\ EMERGENT_LLM_KEY = ""
    /\ tasks = << >>
    /\ calls = NoCalls
    /\ llm = NotSent

(************************* challenge / leaderboard *************************)

\* ChampionInfo built from a stored record (get_champion).
ChampionView(exercise_type, champ) ==
    [exercise_type |-> exercise_type,
     champion_name |-> champ.champion_name,
     champion_photo |-> champ.champion_photo,
     best_reps |-> champ.best_reps,
     best_time_seconds |-> champ.best_time_seconds,
     date_achieved |-> champ.date_achieved]

NotFound(detail) == [detail |-> detail]

GetChampion ==
    \E exercise_type \in ExerciseTypes :
        /\ last' = IF exercise_type \notin DOMAIN champions
                   THEN [op |-> "get_champion", exercise_type |-> exercise_type,
                         status |-> 404, body |-> NotFound("Exercise type not found")]
                   ELSE [op |-> "get_champion", exercise_type |-> exercise_type,
                         status |-> 200,
                         body |-> ChampionView(exercise_type, champions[exercise_type])]
        /\ UNCHANGED <<champions, user_store, users, reps, sessions, created, purchased,
                       EMERGENT_LLM_KEY, llm, tasks, calls>>

\* Variant: the tie branch without its best_reps > 0 guard.
IsNewRecord_TieAtZero(attempt, current) ==
    IF attempt.reps_completed > current.best_reps
    THEN TRUE
    ELSE IF attempt.reps_completed = current.best_reps
         THEN attempt.time_seconds < current.best_time_seconds
         ELSE FALSE

\* Variant: no tie-break, only more reps wins.
IsNewRecord_NoTieBreak(attempt, current) ==
    attempt.reps_completed > current.best_reps

\* Variant: the tie-break accepts an equal time.
IsNewRecord_TieNotStrict(attempt, current) ==
    IF attempt.reps_completed > current.best_reps
    THEN TRUE
    ELSE IF attempt.reps_completed = current.best_reps /\ current.best_reps > 0
         THEN attempt.time_seconds <= current.best_time_seconds
         ELSE FALSE

\* Variant: equal reps wins whatever the time.
IsNewRecord_RepsNotStrict(attempt, current) ==
    attempt.reps_completed >= current.best_reps

\* The record test of submit_challenge: more reps wins, or same reps in less time.
IsNewRecord(attempt, current) ==
    IF attempt.reps_completed > current.best_reps
    THEN TRUE
    ELSE IF attempt.reps_completed = current.best_reps /\ current.best_reps > 0
         THEN attempt.time_seconds < current.best_time_seconds
         ELSE FALSE

\* The record stored for a new champion.
NewChampion(attempt, now) ==
    [champion_name |-> attempt.player_name,
     champion_photo |-> attempt.player_photo,
     best_reps |-> attempt.reps_completed,
     best_time_seconds |-> attempt.time_seconds,
     date_achieved |-> now]

\* Variant: the new record is stored under every kind.
ReplaceChampion_AllKinds(champs, exercise_type, record) ==
    [k \in DOMAIN champs |-> record]

\* champions[attempt.exercise_type] = {...}
ReplaceChampion(champs, exercise_type, record) ==
    [champs EXCEPT ![exercise_type] = record]

\* ChallengeResult of the record branch: built from the attempt, the date read
\* back from the board after the update.
NewRecordResult(attempt, champs) ==
    [success |-> TRUE, is_new_champion |-> TRUE,
     current_champion |->
        [exercise_type |-> attempt.exercise_type,
         champion_name |-> attempt.player_name,
         champion_photo |-> attempt.player_photo,
         best_reps |-> attempt.reps_completed,
         best_time_seconds |-> attempt.time_seconds,
         date_achieved |-> champs[attempt.exercise_type].date_achieved]]

\* Variant: the losing branch echoes the attempt instead of the record found.
NoRecordResult_FromAttempt(attempt, current) ==
    [success |-> TRUE, is_new_champion |-> FALSE,
     current_champion |->
        [exercise_type |-> attempt.exercise_type,
         champion_name |-> attempt.player_name,
         champion_photo |-> attempt.player_photo,
         best_reps |-> attempt.reps_completed,
         best_time_seconds |-> attempt.time_seconds,
         date_achieved |-> current.date_achieved]]

\* ChallengeResult of the other branch: built from the record found.
NoRecordResult(attempt, current) ==
    [success |-> TRUE, is_new_champion |-> FALSE,
     current_champion |->
        [exercise_type |-> attempt.exercise_type,
         champion_name |-> current.champion_name,
         champion_photo |-> current.champion_photo,
         best_reps |-> current.best_reps,
         best_time_seconds |-> current.best_time_seconds,
         date_achieved |-> current.date_achieved]]

SubmitChallenge ==
    \E attempt \in Attempts, now \in Timestamps :
        /\ IF attempt.exercise_type \notin DOMAIN champions
           THEN /\ champions' = champions
                /\ last' = [op |-> "submit", attempt |-> attempt, before |-> champions,
                            status |-> 404,
                            body |-> NotFound("Exercise type not found")]
           ELSE LET current == champions[attempt.exercise_type]
                IN  IF IsNewRecord(attempt, current)
                    THEN /\ champions' = ReplaceChampion(champions, attempt.exercise_type,
                                                         NewChampion(attempt, now))
                         /\ last' = [op |-> "submit", attempt |-> attempt,
                                     before |-> champions, status |-> 200,
                                     body |-> NewRecordResult(attempt, champions')]
                    ELSE /\ champions' = champions
                         /\ last' = [op |-> "submit", attempt |-> attempt,
                                     before |-> champions, status |-> 200,
                                     body |-> NoRecordResult(attempt, current)]
        /\ UNCHANGED <<user_store, users, reps, sessions, created, purchased,
                       EMERGENT_LLM_KEY, llm, tasks, calls>>

(****************************** REP points store ***************************)

\* Fixed costs of the two store items.
BadgeCost == 50
PremiumCost == 100

\* item_id is a free string: one value outside the catalog.
ItemIds == {"badge", "premium", "skin"}

RepPointsResponse(rep_points, message) ==
    [rep_points |-> rep_points, message |-> message]

\* POST /api/add_rep: rep_points += 1.
AddRepPoints ==
    /\ user_store.rep_points < MaxPoints
    /\ user_store' = [user_store EXCEPT !.rep_points = @ + 1]
    /\ calls' = [calls EXCEPT !.add_rep = @ + 1]
    /\ last' = [op |-> "add_rep", before |-> user_store, status |-> 200,
                body |-> RepPointsResponse(user_store'.rep_points,
                                           "Rep added! Keep pushing!")]
    /\ UNCHANGED <<champions, users, reps, sessions, created, purchased,
                   EMERGENT_LLM_KEY, llm, tasks>>

\* GET /api/wallet is served by get_wallet: the current rep_points.
GetWallet ==
    /\ last' = [op |-> "get_wallet", before |-> user_store, status |-> 200,
                body |-> RepPointsResponse(user_store.rep_points, "Current balance")]
    /\ UNCHANGED <<champions, user_store, users, reps, sessions, created, purchased,
                   EMERGENT_LLM_KEY, llm, tasks, calls>>

\* GET /api/store: the catalog with the unlock flags.
GetStore ==
    /\ last' = [op |-> "get_store", before |-> user_store, status |-> 200,
                body |-> [items |-> <<[item_id |-> "badge", name |-> "Badge",
                                       cost |-> BadgeCost,
                                       unlocked |-> user_store.badges_unlocked],
                                      [item_id |-> "premium", name |-> "Premium",
                                       cost |-> PremiumCost,
                                       unlocked |-> user_store.premium_unlocked]>>,
                          rep_points |-> user_store.rep_points]]
    /\ UNCHANGED <<champions, user_store, users, reps, sessions, created, purchased,
                   EMERGENT_LLM_KEY, llm, tasks, calls>>

StorePurchaseResponse(success, message, rep_points, item_unlocked) ==
    [success |-> success, message |-> message, rep_points |-> rep_points,
     item_unlocked |-> item_unlocked]

\* The badge branch of purchase_item.
PurchaseBadge(user) ==
    IF user.badges_unlocked
    THEN [user |-> user,
          body |-> StorePurchaseResponse(FALSE, "Badge already unlocked!",
                                         user.rep_points, TRUE)]
    ELSE IF user.rep_points < BadgeCost
    THEN [user |-> user,
          body |-> StorePurchaseResponse(FALSE, "Not enough REP points!",
                                         user.rep_points, FALSE)]
    ELSE LET after == [user EXCEPT !.rep_points = @ - BadgeCost,
                                   !.badges_unlocked = TRUE]
         IN  [user |-> after,
              body |-> StorePurchaseResponse(TRUE, "Badge Unlocked!",
                                             after.rep_points, TRUE)]

\* Variant: the premium branch debits the badge's cost.
PurchasePremium_AtBadgeCost(user) ==
    IF user.premium_unlocked
    THEN [user |-> user,
          body |-> StorePurchaseResponse(FALSE, "Premium already unlocked!",
                                         user.rep_points, TRUE)]
    ELSE IF user.rep_points < PremiumCost
    THEN [user |-> user,
          body |-> StorePurchaseResponse(FALSE, "Not enough REP points!",
                                         user.rep_points, FALSE)]
    ELSE LET after == [user EXCEPT !.rep_points = @ - BadgeCost,
                                   !.premium_unlocked = TRUE]
         IN  [user |-> after,
              body |-> StorePurchaseResponse(TRUE, "Premium Unlocked!",
                                             after.rep_points, TRUE)]

\* Variant: the premium branch tests the badge's unlock flag.
PurchasePremium_TestsBadgeFlag(user) ==
    IF user.badges_unlocked
    THEN [user |-> user,
          body |-> StorePurchaseResponse(FALSE, "Premium already unlocked!",
                                         user.rep_points, TRUE)]
    ELSE IF user.rep_points < PremiumCost
    THEN [user |-> user,
          body |-> StorePurchaseResponse(FALSE, "Not enough REP points!",
                                         user.rep_points, FALSE)]
    ELSE LET after == [user EXCEPT !.rep_points = @ - PremiumCost,
                                   !.premium_unlocked = TRUE]
         IN  [user |-> after,
              body |-> StorePurchaseResponse(TRUE, "Premium Unlocked!",
                                             after.rep_points, TRUE)]

\* Variant: the premium branch without its balance test.
PurchasePremium_NoBalanceCheck(user) ==
    IF user.premium_unlocked
    THEN [user |-> user,
          body |-> StorePurchaseResponse(FALSE, "Premium already unlocked!",
                                         user.rep_points, TRUE)]
    ELSE LET after == [user EXCEPT !.rep_points = @ - PremiumCost,
                                   !.premium_unlocked = TRUE]
         IN  [user |-> after,
              body |-> StorePurchaseResponse(TRUE, "Premium Unlocked!",
                                             after.rep_points, TRUE)]

\* The premium branch of purchase_item.
PurchasePremium(user) ==
    IF user.premium_unlocked
    THEN [user |-> user,
          body |-> StorePurchaseResponse(FALSE, "Premium already unlocked!",
                                         user.rep_points, TRUE)]
    ELSE IF user.rep_points < PremiumCost
    THEN [user |-> user,
          body |-> StorePurchaseResponse(FALSE, "Not enough REP points!",
                                         user.rep_points, FALSE)]
    ELSE LET after == [user EXCEPT !.rep_points = @ - PremiumCost,
                                   !.premium_unlocked = TRUE]
         IN  [user |-> after,
              body |-> StorePurchaseResponse(TRUE, "Premium Unlocked!",
                                             after.rep_points, TRUE)]

\* purchase_item: the demo user after the call and the answer.  The message of
\* the not-enough branch also carries the cost and the balance; the numbers
\* are in the answer's other fields.
PurchaseItem(user, item_id) ==
    IF item_id = "badge" THEN PurchaseBadge(user)
    ELSE IF item_id = "premium" THEN PurchasePremium(user)
    ELSE [user |-> user,
          body |-> StorePurchaseResponse(FALSE, "Item not found",
                                         user.rep_points, FALSE)]

\* POST /api/store/purchase.
Purchase ==
    \E item_id \in ItemIds :
        LET done == PurchaseItem(user_store, item_id)
        IN  /\ user_store' = done.user
            /\ purchased' = IF done.body.success
                            THEN purchased \cup {item_id} ELSE purchased
            /\ calls' = [calls EXCEPT !.debited =
                                     @ + user_store.rep_points - done.user.rep_points]
            /\ last' = [op |-> "purchase", item_id |-> item_id,
                        before |-> user_store, bought |-> purchased,
                        status |-> 200, body |-> done.body]
            /\ UNCHANGED <<champions, users, reps, sessions, created,
                           EMERGENT_LLM_KEY, llm, tasks>>

(***************************** rep / session store **************************)

InternalError == [detail |-> "Internal Server Error"]

\* coins_earned values of the RepCreate bodies.
CoinValues == {1, 2}

\* RepCreate: exercise_type is any string, coins_earned any int.
RepInputs ==
    { [exercise_type |-> e, coins_earned |-> c] : e \in ExerciseTypes, c \in CoinValues }

\* WorkoutSessionCreate: three plain ints.
SessionInputs ==
    { [pushups |-> 10, situps |-> 5, total_coins |-> 15],
      [pushups |-> 0, situps |-> 0, total_coins |-> 0],
      [pushups |-> -1, situps |-> 0, total_coins |-> 0] }

\* POST /api/reps: insert the Rep, then rep_points += 1.  A failed insert
\* raises before the increment (answered 500).  The document's id is its
\* position in reps.
CreateRep ==
    \E input \in RepInputs, ok \in BOOLEAN :
        /\ Len(reps) < MaxStoredReps
        /\ user_store.rep_points < MaxPoints
        /\ IF ok
           THEN /\ reps' = Append(reps, input)
                /\ user_store' = [user_store EXCEPT !.rep_points = @ + 1]
                /\ created' =
                      [created EXCEPT
                         !.pushup = IF input.exercise_type = "pushup" THEN @ + 1 ELSE @,
                         !.situp = IF input.exercise_type = "situp" THEN @ + 1 ELSE @,
                         !.coins = @ + input.coins_earned]
                /\ calls' = [calls EXCEPT !.create_rep = @ + 1]
                /\ last' = [op |-> "create_rep", input |-> input, before |-> user_store,
                            status |-> 200, body |-> input]
           ELSE /\ UNCHANGED <<reps, user_store, created, calls>>
                /\ last' = [op |-> "create_rep", input |-> input, before |-> user_store,
                            status |-> 500, body |-> InternalError]
        /\ UNCHANGED <<champions, users, sessions, purchased,
                       EMERGENT_LLM_KEY, llm, tasks>>

\* POST /api/sessions: insert the WorkoutSession.
CreateSession ==
    \E input \in SessionInputs, ok \in BOOLEAN :
        /\ Len(sessions) < MaxStoredSessions
        /\ IF ok
           THEN /\ sessions' = Append(sessions, input)
                /\ created' = [created EXCEPT !.sessions = @ + 1]
                /\ last' = [op |-> "create_session", input |-> input,
                            status |-> 200, body |-> input]
           ELSE /\ UNCHANGED <<sessions, created>>
                /\ last' = [op |-> "create_session", input |-> input,
                            status |-> 500, body |-> InternalError]
        /\ UNCHANGED <<champions, user_store, users, reps, purchased,
                       EMERGENT_LLM_KEY, llm, tasks, calls>>

\* count_documents(filter): the documents equal to the filter on its fields.
CountDocuments(collection, filter) ==
    Cardinality({i \in DOMAIN collection :
                    \A f \in DOMAIN filter : collection[i][f] = filter[f]})

RECURSIVE SumCoins(_)
\* {"$sum": "$coins_earned"} over the documents of a group.
SumCoins(collection) ==
    IF collection = << >> THEN 0
    ELSE Head(collection).coins_earned + SumCoins(Tail(collection))

\* aggregate([{"$group": {"_id": None, ...}}]).to_list(1): one group when the
\* collection has documents, none otherwise.
AggregateTotal(collection) ==
    IF collection = << >> THEN << >> ELSE <<[total |-> SumCoins(collection)]>>

\* The three filters of get_wallet_stats.
IsPushup == [exercise_type |-> "pushup"]
IsSitup == [exercise_type |-> "situp"]
AnyDocument == << >>

\* Variant: total_coins is the number of Rep documents.
WalletStats_CoinsAsCount(repsCol, sessionsCol) ==
    [total_coins |-> Len(repsCol),
     total_pushups |-> CountDocuments(repsCol, IsPushup),
     total_situps |-> CountDocuments(repsCol, IsSitup),
     sessions_count |-> CountDocuments(sessionsCol, AnyDocument)]

\* get_wallet_stats: the WalletData aggregate.
WalletStats(repsCol, sessionsCol) ==
    LET pushup_count == CountDocuments(repsCol, IsPushup)
        situp_count == CountDocuments(repsCol, IsSitup)
        coins_result == AggregateTotal(repsCol)
        total_coins == IF coins_result # << >> THEN coins_result[1].total ELSE 0
        sessions_count == CountDocuments(sessionsCol, AnyDocument)
    IN  [total_coins |-> total_coins,
         total_pushups |-> pushup_count,
         total_situps |-> situp_count,
         sessions_count |-> sessions_count]

\* The handler get_wallet_stats, run with no write between its four reads.
GetWalletStats ==
    \E ok \in BOOLEAN :
        /\ last' = IF ok
                   THEN [op |-> "wallet_stats", status |-> 200,
                         body |-> WalletStats(reps, sessions)]
                   ELSE [op |-> "wallet_stats", status |-> 500, body |-> InternalError]
        /\ UNCHANGED <<champions, user_store, users, reps, sessions, created, purchased,
                       EMERGENT_LLM_KEY, llm, tasks, calls>>

(******************************* user accounts ******************************)

\* The ids uuid4() can produce.
UserIds == {"u1", "u2"}

\* amount is an int query parameter (default 1).
Amounts == {1, 2}

\* POST /api/create-user: insert {_id: fresh uuid, rep: 0}.
CreateUser ==
    \E user_id \in UserIds \ DOMAIN users, ok \in BOOLEAN :
        /\ users' = IF ok
                    THEN [u \in DOMAIN users \cup {user_id} |->
                             IF u = user_id THEN 0 ELSE users[u]]
                    ELSE users
        /\ last' = IF ok
                   THEN [op |-> "create_user", before |-> users, store_ok |-> TRUE,
                         status |-> 200, body |-> [user_id |-> user_id]]
                   ELSE [op |-> "create_user", before |-> users, store_ok |-> FALSE,
                         status |-> 500, body |-> InternalError]
        /\ UNCHANGED <<champions, user_store, reps, sessions, created, purchased,
                       EMERGENT_LLM_KEY, llm, tasks, calls>>

\* update_one({"_id": user_id}, {"$inc": {"rep": amount}}): no upsert.
UpdateOneInc(collection, user_id, amount) ==
    IF user_id \in DOMAIN collection
    THEN [collection EXCEPT ![user_id] = @ + amount]
    ELSE collection

\* What find_one returns when no document matches (Python's None).
NoDocument == [_id |-> None]

\* find_one({"_id": user_id}): the document, or None.
FindOne(collection, user_id) ==
    IF user_id \in DOMAIN collection
    THEN [_id |-> user_id, rep |-> collection[user_id]]
    ELSE NoDocument

\* POST /api/add-rep/{user_id}: update_one, find_one, then user["rep"], which
\* raises TypeError on None (answered 500).
AddRepUser ==
    \E user_id \in UserIds, amount \in Amounts, ok_update \in BOOLEAN, ok_find \in BOOLEAN :
        /\ user_id \in DOMAIN users => users[user_id] + amount <= MaxUserRep
        /\ users' = IF ok_update THEN UpdateOneInc(users, user_id, amount) ELSE users
        /\ LET user == FindOne(users', user_id)
               answer == IF ~(ok_update /\ ok_find) \/ user = NoDocument
                         THEN [status |-> 500, body |-> InternalError]
                         ELSE [status |-> 200, body |-> [rep |-> user.rep]]
           IN  last' = [op |-> "add_rep_user", user_id |-> user_id, amount |-> amount,
                        before |-> users, store_ok |-> ok_update /\ ok_find,
                        status |-> answer.status, body |-> answer.body]
        /\ UNCHANGED <<champions, user_store, reps, sessions, created, purchased,
                       EMERGENT_LLM_KEY, llm, tasks, calls>>

\* The answer of get_wallet_by_user: find_one, 404 on None.
WalletByUserAnswer(collection, user_id, ok) ==
    LET user == FindOne(collection, user_id)
    IN  IF ~ok THEN [status |-> 500, body |-> InternalError]
        ELSE IF user = NoDocument
        THEN [status |-> 404, body |-> NotFound("User not found")]
        ELSE [status |-> 200, body |-> [rep |-> user.rep]]

\* GET /api/wallet/{user_id}, the handler called with a user id.
GetWalletByUser ==
    \E user_id \in UserIds, ok \in BOOLEAN :
        /\ LET answer == WalletByUserAnswer(users, user_id, ok)
           IN  last' = [op |-> "get_wallet_by_user", user_id |-> user_id,
                        before |-> users, store_ok |-> ok,
                        status |-> answer.status, body |-> answer.body]
        /\ UNCHANGED <<champions, user_store, users, reps, sessions, created, purchased,
                       EMERGENT_LLM_KEY, llm, tasks, calls>>

(******************************* analyze_pose *******************************)

\* Text is a sequence of one-character strings.
Uppercase ==
    <<"A", "B", "C", "D", "E", "F", "G", "H", "I", "J", "K", "L", "M",
      "N", "O", "P", "Q", "R", "S", "T", "U", "V", "W", "X", "Y", "Z">>

Lowercase ==
    <<"a", "b", "c", "d", "e", "f", "g", "h", "i", "j", "k", "l", "m",
      "n", "o", "p", "q", "r", "s", "t", "u", "v", "w", "x", "y", "z">>

Whitespace == {" ", "\n", "\t", "\r"}

Digits == <<"0", "1", "2", "3", "4", "5", "6", "7", "8", "9">>

LowerChar(c) ==
    IF \E i \in DOMAIN Uppercase : Uppercase[i] = c
    THEN Lowercase[CHOOSE i \in DOMAIN Uppercase : Uppercase[i] = c]
    ELSE c

\* str.lower()
Lower(text) == [i \in DOMAIN text |-> LowerChar(text[i])]

\* str.strip()
Strip(text) ==
    LET inked == {i \in DOMAIN text : text[i] \notin Whitespace}
    IN  IF inked = {} THEN << >>
        ELSE SubSeq(text, CHOOSE i \in inked : \A j \in inked : i <= j,
                          CHOOSE i \in inked : \A j \in inked : j <= i)

\* str.find(), from 1, 0 when absent.
Find(text, pattern) ==
    LET hits == {i \in 1 .. (Len(text) - Len(pattern) + 1) :
                    SubSeq(text, i, i + Len(pattern) - 1) = pattern}
    IN  IF hits = {} THEN 0 ELSE CHOOSE i \in hits : \A j \in hits : i <= j

\* pattern in text
Contains(text, pattern) == Find(text, pattern) > 0

\* str.split(sep): the parts between the occurrences of sep, left to right.
RECURSIVE Split(_, _)
Split(text, sep) ==
    LET i == Find(text, sep)
    IN  IF i = 0 THEN <<text>>
        ELSE <<SubSeq(text, 1, i - 1)>>
                 \o Split(SubSeq(text, i + Len(sep), Len(text)), sep)

\* text[:n]
Take(text, n) == SubSeq(text, 1, IF Len(text) < n THEN Len(text) ELSE n)

\* A float is a decimal fraction num/den or nan.
Float(num, den) == [nan |-> FALSE, num |-> num, den |-> den]

NaN == [nan |-> TRUE, num |-> 0, den |-> 1]

\* x < y on floats: every comparison with nan is false.
FloatLess(x, y) == ~x.nan /\ ~y.nan /\ x.num * y.den < y.num * x.den

FloatEq(x, y) == ~x.nan /\ ~y.nan /\ x.num * y.den = y.num * x.den

\* min(a, b) and max(a, b) keep the first argument unless the second is
\* strictly smaller (larger).
PyMin(a, b) == IF FloatLess(b, a) THEN b ELSE a

PyMax(a, b) == IF FloatLess(a, b) THEN b ELSE a

IsDigit(c) == \E i \in DOMAIN Digits : Digits[i] = c

DigitValue(c) == (CHOOSE i \in DOMAIN Digits : Digits[i] = c) - 1

RECURSIVE DigitsValue(_)
DigitsValue(digits) ==
    IF digits = << >> THEN 0
    ELSE DigitsValue(SubSeq(digits, 1, Len(digits) - 1)) * 10
             + DigitValue(digits[Len(digits)])

RECURSIVE Pow10(_)
Pow10(n) == IF n = 0 THEN 1 ELSE 10 * Pow10(n - 1)

\* float(text): surrounding whitespace is dropped; an optional sign, then
\* nan or a decimal numeral with at least one digit and at most one point.
\* ok is FALSE where float() raises ValueError.  (The exponent, underscore
\* and infinity forms need characters no reply here is made of.)
ParseFloat(text) ==
    LET t == Strip(text)
        signed == t # << >> /\ t[1] \in {"+", "-"}
        body == IF signed THEN Tail(t) ELSE t
        sign == IF signed /\ t[1] = "-" THEN -1 ELSE 1
        dots == {i \in DOMAIN body : body[i] = "."}
        digits == SelectSeq(body, IsDigit)
        decimals == IF dots = {} THEN 0 ELSE Len(body) - (CHOOSE i \in dots : TRUE)
    IN  IF body = <<"n", "a", "n">> THEN [ok |-> TRUE, value |-> NaN]
        ELSE IF /\ \A i \in DOMAIN body : IsDigit(body[i]) \/ body[i] = "."
                /\ Cardinality(dots) <= 1
                /\ digits # << >>
        THEN [ok |-> TRUE,
              value |-> Float(sign * DigitsValue(digits), Pow10(decimals))]
        ELSE [ok |-> FALSE, value |-> NaN]

ShoulderMarker == <<"s", "h", "o", "u", "l", "d", "e", "r", "_", "y", ":">>

Newline == <<"\n">>

\* shoulder_y = 0.5  # default middle
DefaultShoulderY == Float(5, 10)

\* max(0.0, min(1.0, shoulder_y))
Clamp(shoulder_y) == PyMax(Float(0, 1), PyMin(Float(1, 1), shoulder_y))

\* Extract shoulder_y value: the text between the first marker and the next
\* marker, up to its first line break, parsed and clamped; the default when
\* the marker is absent or float() raises.
ParseShoulderY(response_lower) ==
    IF Contains(response_lower, ShoulderMarker)
    THEN LET y_part == Strip(Split(Split(response_lower, ShoulderMarker)[2], Newline)[1])
             parsed == ParseFloat(y_part)
         IN  IF parsed.ok THEN Clamp(parsed.value) ELSE DefaultShoulderY
    ELSE DefaultShoulderY

PositionUp == <<"p", "o", "s", "i", "t", "i", "o", "n", ":", " ", "u", "p">>

PositionUpTight == <<"p", "o", "s", "i", "t", "i", "o", "n", ":", "u", "p">>

PositionDown == <<"p", "o", "s", "i", "t", "i", "o", "n", ":", " ", "d", "o", "w", "n">>

PositionDownTight == <<"p", "o", "s", "i", "t", "i", "o", "n", ":", "d", "o", "w", "n">>

Up == <<"u", "p">>

Down == <<"d", "o", "w", "n">>

Pose(position, confidence) == [position |-> position, confidence |-> confidence]

\* Variant: the explicit down marker is looked for before the up marker.
ParsePosition_DownFirst(response_lower) ==
    IF Contains(response_lower, PositionDown) \/ Contains(response_lower, PositionDownTight)
    THEN Pose("down", "high")
    ELSE IF Contains(response_lower, PositionUp) \/ Contains(response_lower, PositionUpTight)
    THEN Pose("up", "high")
    ELSE IF Contains(response_lower, Up) /\ ~Contains(response_lower, Down)
    THEN Pose("up", "medium")
    ELSE IF Contains(response_lower, Down) /\ ~Contains(response_lower, Up)
    THEN Pose("down", "medium")
    ELSE Pose("unknown", "low")

\* Determine position from response.
ParsePosition(response_lower) ==
    IF Contains(response_lower, PositionUp) \/ Contains(response_lower, PositionUpTight)
    THEN Pose("up", "high")
    ELSE IF Contains(response_lower, PositionDown) \/ Contains(response_lower, PositionDownTight)
    THEN Pose("down", "high")
    ELSE IF Contains(response_lower, Up) /\ ~Contains(response_lower, Down)
    THEN Pose("up", "medium")
    ELSE IF Contains(response_lower, Down) /\ ~Contains(response_lower, Up)
    THEN Pose("down", "medium")
    ELSE Pose("unknown", "low")

\* raw_response=response[:200]
RawResponseLen == 200

\* f"{shoulder_y:.2f}" as a count of hundredths, for a value in [0, 1].
Hundredths(y) == (y.num * 200 + y.den) \div (2 * y.den)

PoseAnalysisResponse(position, shoulder_y, confidence, message, raw_response) ==
    [position |-> position, shoulder_y |-> shoulder_y, confidence |-> confidence,
     message |-> message, raw_response |-> raw_response]

\* The response of both failure returns.
Degraded(message) ==
    PoseAnalysisResponse("unknown", DefaultShoulderY, "low", [text |-> message], << >>)

\* The response built from the collaborator's reply.
ParsedResponse(response) ==
    LET response_lower == Lower(Strip(response))
        shoulder_y == ParseShoulderY(response_lower)
        pose == ParsePosition(response_lower)
    IN  PoseAnalysisResponse(pose.position, shoulder_y, pose.confidence,
                             [text |-> "Detected", position |-> pose.position,
                              y |-> Hundredths(shoulder_y)],
                             Take(response, RawResponseLen))

\* Variant: the credential is never found missing.
NotConfigured_Never(key) == FALSE

\* not EMERGENT_LLM_KEY
NotConfigured(key) == key = ""

MaxChunks == 3

\* The pieces the collaborator's replies are made of.
Chunks ==
    { ShoulderMarker, <<" ">>, Newline, <<"0", ".", "3", "5">>, <<"1", ".", "8">>, <<"-", "0", ".", "2">>, <<"N", "a", "N">>,
      <<"P", "o", "s", "i", "t", "i", "o", "n", ":">>, Up, Down, PositionUpTight }

RECURSIVE RepliesOf(_)
RepliesOf(n) ==
    IF n = 0 THEN {<< >>}
    ELSE LET shorter == RepliesOf(n - 1)
         IN  shorter \cup {r \o c : r \in shorter, c \in Chunks}

\* Every reply of at most MaxChunks pieces.
Replies == RepliesOf(MaxChunks)

\* What send_message raises when the provider or the network fails.
Exceptions ==
    { [type |-> "ConnectionError", args |-> "network unreachable"],
      [type |-> "Exception", args |-> "provider rejected the request"] }

\* str(e)
Str(e) == e.args

\* The outcomes of awaiting chat.send_message.
Outcomes ==
    {[raised |-> FALSE, response |-> r, e |-> [type |-> "", args |-> ""]] : r \in Replies}
        \cup {[raised |-> TRUE, response |-> << >>, e |-> e] : e \in Exceptions}

\* image_base64 with and without a data URI prefix.
Images == { <<"d", "a", "t", "a", ":", "i", "m", "a", "g", "e", "/", "j", "p", "e", "g", ";", "b", "a", "s", "e", "6", "4", ",", "A", "A", "A", "A">>, <<"B", "B", "B", "B">> }

Comma == <<",">>

\* Clean base64 string - remove data URI prefix if present.
ImageData(image_base64) ==
    IF Contains(image_base64, Comma) THEN Split(image_base64, Comma)[2]
    ELSE image_base64

PoseRequests ==
    { [image_base64 |-> <<"d", "a", "t", "a", ":", "i", "m", "a", "g", "e", "/", "j", "p", "e", "g", ";", "b", "a", "s", "e", "6", "4", ",", "A", "A", "A", "A">>, exercise_type |-> "pushup"],
      [image_base64 |-> <<"B", "B", "B", "B">>, exercise_type |-> "situp"] }

\* POST /api/analyze-pose.  Without a key the collaborator is not called; a
\* raising call and a missing key both answer the degraded response; a reply
\* is parsed.  Every path returns the response model, status 200.
AnalyzePose ==
    \E request \in PoseRequests :
        /\ LET sent == ~NotConfigured(EMERGENT_LLM_KEY)
               outcome == IF sent THEN llm ELSE NotSent
               parsed == sent /\ ~outcome.raised
               body == IF ~sent THEN Degraded("AI key not configured")
                       ELSE IF outcome.raised THEN Degraded(Str(outcome.e))
                       ELSE ParsedResponse(outcome.response)
           IN  last' = [op |-> "analyze_pose", request |-> request,
                        key |-> EMERGENT_LLM_KEY, sent |-> sent,
                        image |-> IF sent THEN ImageData(request.image_base64) ELSE << >>,
                        outcome |-> outcome, parsed |-> parsed,
                        status |-> 200, body |-> body]
        /\ UNCHANGED <<champions, user_store, users, reps, sessions, created, purchased,
                       EMERGENT_LLM_KEY, tasks, calls, llm>>

\* The service started with or without a key, the collaborator with one of
\* its outcomes.
InitPose ==
    /\ champions = InitChampions
    /\ user_store = InitUserStore
    /\ users = [u \in {} |-> 0]
    /\ reps = << >>
    /\ sessions = << >>
    /\ created = [pushup |-> 0, situp |-> 0, coins |-> 0, sessions |-> 0]
    /\ purchased = {}
    /\ last = NoRequest
    /\ EMERGENT_LLM_KEY \in LlmKeys
    /\ tasks = << >>
    /\ calls = NoCalls
    /\ llm \in Outcomes

(********************************* routing **********************************)

Lit(name) == [kind |-> "lit", name |-> name]
Param(name) == [kind |-> "param", name |-> name]

Route(method, path, endpoint) ==
    [method |-> method, path |-> path, endpoint |-> endpoint]

\* APIRouter(prefix="/api")
Prefix == <<Lit("api")>>

\* The routes of api_router in the order their decorators run.
Routes ==
    << Route("GET", <<Lit("")>>, "root"),
       Route("POST", <<Lit("create-user")>>, "create_user"),
       Route("POST", <<Lit("add-rep"), Param("user_id")>>, "add_rep_user"),
       Route("GET", <<Lit("wallet"), Param("user_id")>>, "get_wallet_by_user"),
       Route("POST", <<Lit("add_rep")>>, "add_rep"),
       Route("GET", <<Lit("wallet")>>, "get_wallet"),
       Route("GET", <<Lit("store")>>, "get_store"),
       Route("POST", <<Lit("store"), Lit("purchase")>>, "purchase_item"),
       Route("GET", <<Lit("challenge"), Param("exercise_type")>>, "get_champion"),
       Route("GET", <<Lit("challenge")>>, "get_all_champions"),
       Route("POST", <<Lit("challenge"), Lit("submit")>>, "submit_challenge"),
       Route("POST", <<Lit("analyze-pose")>>, "analyze_pose"),
       Route("POST", <<Lit("status")>>, "create_status_check"),
       Route("GET", <<Lit("status")>>, "get_status_checks"),
       Route("POST", <<Lit("reps")>>, "create_rep"),
       Route("GET", <<Lit("reps")>>, "get_reps"),
       Route("POST", <<Lit("sessions")>>, "create_session"),
       Route("GET", <<Lit("sessions")>>, "get_sessions"),
       Route("GET", <<Lit("wallet"), Lit("stats")>>, "get_wallet_stats") >>

\* A path, as its segments, matches a route's pattern: a literal segment
\* matches itself, a parameter any one segment.
PathMatches(pattern, path) ==
    /\ Len(pattern) = Len(path)
    /\ \A i \in DOMAIN pattern :
          pattern[i].kind = "param" \/ pattern[i].name = path[i]

\* The routes matching a request, by position.
Matching(method, path) ==
    {i \in DOMAIN Routes :
        /\ Routes[i].method = method
        /\ PathMatches(Prefix \o Routes[i].path, path)}

\* The router serves a request with the first route that matches it.
Dispatch(method, path) ==
    LET hits == Matching(method, path)
    IN  IF hits = {} THEN Route(method, << >>, "not_found")
        ELSE Routes[CHOOSE i \in hits : \A j \in hits : i <= j]

\* The GET requests on the wallet paths.
WalletPaths ==
    {<<"api", "wallet">>, <<"api", "wallet", "stats">>} \cup
    {<<"api", "wallet", u>> : u \in UserIds}

\* GET on a wallet path, served by the handler the router picks; the path
\* parameter of /wallet/{user_id} is the path's last segment.
HttpGetWallet ==
    \E path \in WalletPaths, ok \in BOOLEAN :
        /\ LET route == Dispatch("GET", path)
               answer ==
                   IF route.endpoint = "get_wallet_by_user"
                   THEN WalletByUserAnswer(users, path[Len(path)], ok)
                   ELSE IF route.endpoint = "get_wallet"
                   THEN [status |-> 200,
                         body |-> RepPointsResponse(user_store.rep_points,
                                                    "Current balance")]
                   ELSE IF route.endpoint = "get_wallet_stats"
                   THEN IF ok THEN [status |-> 200, body |-> WalletStats(reps, sessions)]
                        ELSE [status |-> 500, body |-> InternalError]
                   ELSE [status |-> 404, body |-> NotFound("Not Found")]
           IN  last' = [op |-> "http_get", path |-> path, endpoint |-> route.endpoint,
                        store_ok |-> ok, status |-> answer.status,
                        body |-> answer.body]
        /\ UNCHANGED <<champions, user_store, users, reps, sessions, created, purchased,
                       EMERGENT_LLM_KEY, llm, tasks, calls>>

(************************ create_rep across its await ***********************)

TaskIds == 1 .. MaxTasks

\* create_rep up to its await: the Rep is built and the insert is sent.
\* `seen` notes the balance the handler could have read at this point.
CreateRepBegin(input) ==
    \E t \in TaskIds \ DOMAIN tasks :
        /\ Len(reps) + Cardinality(DOMAIN tasks) < MaxStoredReps
        /\ user_store.rep_points < MaxPoints
        /\ tasks' = [u \in DOMAIN tasks \cup {t} |->
                        IF u = t
                        THEN [input |-> input, insert |-> "sent",
                              seen |-> user_store.rep_points]
                        ELSE tasks[u]]
        /\ UNCHANGED <<champions, user_store, users, reps, sessions, created,
                       purchased, last, EMERGENT_LLM_KEY, llm, calls>>

\* The store serves the insert of a suspended handler: the document is
\* written, or the call fails.
StoreInsert ==
    \E t \in DOMAIN tasks, ok \in BOOLEAN :
        /\ tasks[t].insert = "sent"
        /\ tasks' = [tasks EXCEPT ![t].insert = IF ok THEN "done" ELSE "raised"]
        /\ IF ok
           THEN /\ reps' = Append(reps, tasks[t].input)
                /\ created' =
                      [created EXCEPT
                         !.pushup = IF tasks[t].input.exercise_type = "pushup"
                                    THEN @ + 1 ELSE @,
                         !.situp = IF tasks[t].input.exercise_type = "situp"
                                   THEN @ + 1 ELSE @,
                         !.coins = @ + tasks[t].input.coins_earned]
           ELSE UNCHANGED <<reps, created>>
        /\ UNCHANGED <<champions, user_store, users, sessions, purchased, last,
                       EMERGENT_LLM_KEY, llm, calls>>

\* Variant: the handler writes back the balance it read before the await.
RepPointsAfterInsert_StaleRead(user, task) ==
    IF task.insert = "done"
    THEN [user EXCEPT !.rep_points = task.seen + 1]
    ELSE user

\* user_store["demo_user"]["rep_points"] += 1, reached only when the insert
\* did not raise; the read and the write are in one step of the event loop.
RepPointsAfterInsert(user, task) ==
    IF task.insert = "done"
    THEN [user EXCEPT !.rep_points = @ + 1]
    ELSE user

\* create_rep from its await on: the increment and the answer, or the 500 of
\* a failed insert.
CreateRepResume ==
    \E t \in DOMAIN tasks :
        /\ tasks[t].insert # "sent"
        /\ user_store' = RepPointsAfterInsert(user_store, tasks[t])
        /\ calls' = IF tasks[t].insert = "done"
                    THEN [calls EXCEPT !.create_rep = @ + 1] ELSE calls
        /\ last' = IF tasks[t].insert = "done"
                   THEN [op |-> "create_rep", input |-> tasks[t].input,
                         before |-> user_store, seen |-> tasks[t].seen,
                         status |-> 200, body |-> tasks[t].input]
                   ELSE [op |-> "create_rep", input |-> tasks[t].input,
                         before |-> user_store, seen |-> tasks[t].seen,
                         status |-> 500, body |-> InternalError]
        /\ tasks' = [u \in DOMAIN tasks \ {t} |-> tasks[u]]
        /\ UNCHANGED <<champions, users, reps, sessions, created, purchased,
                       EMERGENT_LLM_KEY, llm>>

\* A state add_rep calls alone lead to: one point short of both costs.
StartCalls == BadgeCost + PremiumCost - 1

InitConcurrent ==
    /\ champions = InitChampions
    /\ user_store = [InitUserStore EXCEPT !.rep_points = StartCalls]
    /\ users = [u \in {} |-> 0]
    /\ reps = << >>
    /\ sessions = << >>
    /\ created = [pushup |-> 0, situp |-> 0, coins |-> 0, sessions |-> 0]
    /\ purchased = {}
    /\ last = NoRequest
    /\ EMERGENT_LLM_KEY = ""
    /\ tasks = << >>
    /\ calls = [NoCalls EXCEPT !.add_rep = StartCalls]
    /\ llm = NotSent

\* Increments requested so far, in flight included, stay within the run's bound.
WithinRun ==
    calls.add_rep + calls.create_rep + Cardinality(DOMAIN tasks)
        < StartCalls + MaxRequests

ConcurrentAddRep == WithinRun /\ AddRepPoints

\* The RepCreate bodies of the interleaved runs.
ConcurrentInputs ==
    { [exercise_type |-> "pushup", coins_earned |-> 1],
      [exercise_type |-> "plank", coins_earned |-> 2] }

ConcurrentCreateRep ==
    WithinRun /\ \E input \in ConcurrentInputs : CreateRepBegin(input)

(******************************* specifications ****************************)

NextChampion == GetChampion \/ SubmitChallenge

SpecChampion == Init /\ [][NextChampion]_vars

NextStore == AddRepPoints \/ GetWallet \/ GetStore \/ Purchase \/ CreateRep

SpecStore == Init /\ [][NextStore]_vars

NextWallet == CreateRep \/ CreateSession \/ GetWalletStats

SpecWallet == Init /\ [][NextWallet]_vars

NextUsers == CreateUser \/ AddRepUser \/ GetWalletByUser

SpecUsers == Init /\ [][NextUsers]_vars

NextConcurrent ==
    \/ ConcurrentAddRep \/ ConcurrentCreateRep \/ StoreInsert \/ CreateRepResume
    \/ Purchase

SpecConcurrent == InitConcurrent /\ [][NextConcurrent]_vars

NextRouter == CreateUser \/ CreateRep \/ HttpGetWallet

SpecRouter == Init /\ [][NextRouter]_vars

NextPose == AnalyzePose

SpecPose == InitPose /\ [][NextPose]_vars

\* The whole router.  The three groups of handlers share no state but
\* rep_points, which create_rep increments.
Next ==
    \/ GetChampion \/ SubmitChallenge
    \/ AddRepPoints \/ GetWallet \/ GetStore \/ Purchase
    \/ CreateRep \/ CreateSession \/ GetWalletStats
    \/ CreateUser \/ AddRepUser \/ GetWalletByUser
    \/ HttpGetWallet \/ AnalyzePose

Spec == Init /\ [][Next]_vars

(***************************** champion claims *****************************)

\* The last request was a submit for a kind of the board (answered 200).
SubmitDone == last.op = "submit" /\ last.status = 200

\* The board's record of the submitted kind before and after the call.
OldChampion == last.before[last.attempt.exercise_type]
CurChampion == champions[last.attempt.exercise_type]

\* The record of the submitted kind now holds the attempt.
ReplacedByAttempt ==
    /\ CurChampion # OldChampion
    /\ \E now \in Timestamps : CurChampion = NewChampion(last.attempt, now)

\* C1 as stated: the record is replaced if and only if reps exceeds the stored
\* best_reps, or equals it with a strictly lower time.
C1_ReplacedIffMoreRepsOrTieLowerTime ==
    SubmitDone =>
        LET beats == \/ last.attempt.reps_completed > OldChampion.best_reps
                     \/ /\ last.attempt.reps_completed = OldChampion.best_reps
                        /\ last.attempt.time_seconds < OldChampion.best_time_seconds
        IN  IF beats THEN ReplacedByAttempt ELSE CurChampion = OldChampion

\* C1 amended: the record is replaced if and only if reps exceeds the stored
\* best_reps, or equals it, the stored best_reps being greater than 0, with a
\* strictly lower time.
C1_ReplacedIffMoreRepsOrRealTieLowerTime ==
    SubmitDone =>
        LET beats == \/ last.attempt.reps_completed > OldChampion.best_reps
                     \/ /\ last.attempt.reps_completed = OldChampion.best_reps
                        /\ OldChampion.best_reps > 0
                        /\ last.attempt.time_seconds < OldChampion.best_time_seconds
        IN  IF beats THEN ReplacedByAttempt ELSE CurChampion = OldChampion

\* C1 witness: a real champion was dethroned by more reps.
C1_Witness ==
    /\ SubmitDone
    /\ OldChampion.best_reps > 0
    /\ last.attempt.reps_completed > OldChampion.best_reps
    /\ ReplacedByAttempt

\* C4: over a champion with best reps R > 0 and best time T, a submit with
\* reps = R and time < T answers is_new_champion=True, and a submit with
\* reps < R answers is_new_champion=False whatever its time.
C4_TieBreakByLowerTime ==
    (SubmitDone /\ OldChampion.best_reps > 0) =>
        /\ (/\ last.attempt.reps_completed = OldChampion.best_reps
            /\ last.attempt.time_seconds < OldChampion.best_time_seconds)
              => last.body.is_new_champion = TRUE
        /\ last.attempt.reps_completed < OldChampion.best_reps
              => last.body.is_new_champion = FALSE

\* C4 witness: equal reps in less time was answered is_new_champion=True.
C4_Witness ==
    /\ SubmitDone
    /\ OldChampion.best_reps > 0
    /\ last.attempt.reps_completed = OldChampion.best_reps
    /\ last.attempt.time_seconds < OldChampion.best_time_seconds
    /\ last.body.is_new_champion = TRUE

\* C5: with no champion (best_reps = 0, best_time_seconds = 0) a submit of 0
\* reps in 0 seconds is no record and the placeholder stays; in every state an
\* equal-reps submit whose time is not strictly lower dethrones nobody.
C5_NoZeroEffortRecord ==
    SubmitDone =>
        /\ (/\ OldChampion.best_reps = 0
            /\ OldChampion.best_time_seconds = 0
            /\ last.attempt.reps_completed = 0
            /\ last.attempt.time_seconds = 0)
              => /\ last.body.is_new_champion = FALSE
                 /\ OldChampion = Placeholder
                 /\ CurChampion = Placeholder
        /\ (/\ last.attempt.reps_completed = OldChampion.best_reps
            /\ last.attempt.time_seconds >= OldChampion.best_time_seconds)
              => /\ last.body.is_new_champion = FALSE
                 /\ CurChampion = OldChampion

\* C5 witness: a real champion's reps and time were matched exactly, by another
\* player, to no effect.
C5_Witness ==
    /\ SubmitDone
    /\ OldChampion.best_reps > 0
    /\ last.attempt.reps_completed = OldChampion.best_reps
    /\ last.attempt.time_seconds = OldChampion.best_time_seconds
    /\ last.attempt.player_name # OldChampion.champion_name
    /\ CurChampion = OldChampion

\* C6: a submit changes at most the record of the submitted kind: none when it
\* is answered 404 or is no record, and never the other kind's.
C6_SubmitFrame ==
    last.op = "submit" =>
        /\ \A k \in Kinds :
              k # last.attempt.exercise_type => champions[k] = last.before[k]
        /\ last.status = 404 => champions = last.before
        /\ (last.status = 200 /\ ~last.body.is_new_champion) => champions = last.before

\* C6 witness: a record was set for one kind while the other kind held a real
\* champion.
C6_Witness ==
    /\ SubmitDone
    /\ last.body.is_new_champion
    /\ \E k \in Kinds :
          /\ k # last.attempt.exercise_type
          /\ last.before[k] # Placeholder

\* C7: is_new_champion is True exactly when the call replaced the record, and
\* current_champion is the view of the record stored after the call.
C7_ResultMatchesBoard ==
    SubmitDone =>
        /\ last.body.is_new_champion <=> (CurChampion # OldChampion)
        /\ last.body.current_champion =
              ChampionView(last.attempt.exercise_type, CurChampion)

\* C7 witness: a losing attempt over a real champion.
C7_Witness ==
    /\ SubmitDone
    /\ ~last.body.is_new_champion
    /\ OldChampion # Placeholder
    /\ last.attempt.reps_completed >= 0
    /\ last.attempt.player_name # CurChampion.champion_name

(******************************* store claims ******************************)

\* The fixed cost of a catalog item.
CostOf(item_id) == IF item_id = "badge" THEN BadgeCost ELSE PremiumCost

\* The unlock flag of a catalog item in a demo-user record.
UnlockedIn(user, item_id) ==
    IF item_id = "badge" THEN user.badges_unlocked ELSE user.premium_unlocked

\* C2: a purchase answers success=False exactly when the item is already
\* unlocked, rep_points is below its cost (50 badge, 100 premium) or the id is
\* unknown, and then changes neither rep_points nor a flag; one that answers
\* success=True debits exactly the item's cost and sets exactly its flag.
C2_PurchaseContract ==
    last.op = "purchase" =>
        LET item == last.item_id
            known == item \in {"badge", "premium"}
            other == IF item = "badge" THEN "premium" ELSE "badge"
        IN  /\ last.body.success <=>
                  /\ known
                  /\ ~UnlockedIn(last.before, item)
                  /\ last.before.rep_points >= CostOf(item)
            /\ ~last.body.success => user_store = last.before
            /\ last.body.success =>
                  /\ user_store.rep_points = last.before.rep_points - CostOf(item)
                  /\ UnlockedIn(user_store, item)
                  /\ UnlockedIn(user_store, other) = UnlockedIn(last.before, other)

\* C2 witness: premium was bought by a user who already held the badge and
\* had more points than the cost.
C2_Witness ==
    /\ last.op = "purchase"
    /\ last.item_id = "premium"
    /\ last.body.success
    /\ last.before.badges_unlocked
    /\ last.before.rep_points > PremiumCost

\* C3: once a purchase of an item has succeeded, every later purchase of it
\* answers success=False with item_unlocked=True and leaves rep_points alone.
C3_SecondPurchaseRefused ==
    (last.op = "purchase" /\ last.item_id \in last.bought) =>
        /\ last.body.success = FALSE
        /\ last.body.item_unlocked = TRUE
        /\ user_store.rep_points = last.before.rep_points
        /\ last.body.rep_points = last.before.rep_points

\* C3 witness: premium was asked for again after the balance had been earned
\* back, the badge still locked.
C3_Witness ==
    /\ last.op = "purchase"
    /\ last.item_id = "premium"
    /\ "premium" \in last.bought
    /\ "badge" \notin last.bought
    /\ last.before.rep_points >= PremiumCost
    /\ ~last.body.success

\* C8: GET /api/wallet answers the aggregate wallet, its four fields present
\* as integers.
C8_WalletAnswersAggregate ==
    last.op = "get_wallet" =>
        /\ last.status = 200
        /\ \A f \in {"total_coins", "total_pushups", "total_situps", "sessions_count"} :
              f \in DOMAIN last.body /\ last.body[f] \in Int

(****************************** wallet claims ******************************)

\* C9: the aggregation answers the per-kind Rep counts, the sum of
\* coins_earned over all Reps and the session count of the successful
\* creations so far; with only pushup and situp Reps of 1 coin each,
\* total_coins = N + M.
C9_WalletAggregation ==
    (last.op = "wallet_stats" /\ last.status = 200) =>
        /\ last.body.total_pushups = created.pushup
        /\ last.body.total_situps = created.situp
        /\ last.body.total_coins = created.coins
        /\ last.body.sessions_count = created.sessions
        /\ (\A i \in DOMAIN reps :
               reps[i].exercise_type \in Kinds /\ reps[i].coins_earned = 1)
              => last.body.total_coins = created.pushup + created.situp

\* C9 witness: N = 1 pushup and M = 1 situp of 1 coin each and S = 2 sessions.
C9_Witness ==
    /\ last.op = "wallet_stats"
    /\ last.status = 200
    /\ \A i \in DOMAIN reps : reps[i].coins_earned = 1
    /\ last.body = [total_coins |-> 2, total_pushups |-> 1, total_situps |-> 1,
                    sessions_count |-> 2]

(******************************* 404 claims ********************************)

\* C10: a keyed operation whose key does not exist is answered 404, never a
\* server error (the store calls themselves succeeding).
C10_MissingKeyIsNotFound ==
    /\ (/\ last.op \in {"get_wallet_by_user", "add_rep_user"}
        /\ last.store_ok
        /\ last.user_id \notin DOMAIN last.before)
          => last.status = 404
    /\ (last.op = "get_champion" /\ last.exercise_type \notin Kinds)
          => last.status = 404
    /\ (last.op = "submit" /\ last.attempt.exercise_type \notin Kinds)
          => last.status = 404

(**************************** validation claims ****************************)

\* C11: POST /api/reps with a kind outside {pushup, situp} and POST
\* /api/sessions with a negative count are rejected with a validation error
\* (422), store no record and leave rep_points alone (a store outage, answered
\* 500, set aside).
C11_CreateValidatesInput ==
    /\ (/\ last.op = "create_rep"
        /\ last.input.exercise_type \notin Kinds
        /\ last.status # 500)
          => /\ last.status = 422
             /\ user_store.rep_points = last.before.rep_points
    /\ (/\ last.op = "create_session"
        /\ \/ last.input.pushups < 0
           \/ last.input.situps < 0
           \/ last.input.total_coins < 0
        /\ last.status # 500)
          => last.status = 422

(************************** champion history claims ************************)

\* A record of the board that a player has set.
RealChampion(champ) == champ.best_reps > 0 /\ champ.date_achieved # None

\* C18: across any sequence of submits the record of each kind only improves:
\* best_reps never decreases, best_time_seconds never increases while
\* best_reps stays equal, and a real champion never gives way to the
\* placeholder.
C18_ChampionOnlyImproves ==
    [][\A k \in Kinds :
          /\ champions'[k].best_reps >= champions[k].best_reps
          /\ champions'[k].best_reps = champions[k].best_reps
                => champions'[k].best_time_seconds <= champions[k].best_time_seconds
          /\ RealChampion(champions[k])
                => RealChampion(champions'[k]) /\ champions'[k] # Placeholder]_vars

\* C18 witness: a real champion's time was beaten at equal reps by the other
\* player.
C18_Witness ==
    /\ SubmitDone
    /\ RealChampion(OldChampion)
    /\ RealChampion(CurChampion)
    /\ CurChampion.best_reps = OldChampion.best_reps
    /\ CurChampion.best_time_seconds < OldChampion.best_time_seconds
    /\ CurChampion.champion_name # OldChampion.champion_name

(***************************** rep_points claims ***************************)

\* What the purchases of the unlocked items have cost.
CostOfUnlocked ==
    (IF user_store.badges_unlocked THEN BadgeCost ELSE 0)
        + (IF user_store.premium_unlocked THEN PremiumCost ELSE 0)

\* C15: under every interleaving, rep_points = completed add_rep calls
\* + create_rep calls that came back from a successful insert (1 each)
\* - 50 if badge is unlocked - 100 if premium is unlocked.
C15_RepPointsAccounting ==
    user_store.rep_points = calls.add_rep + calls.create_rep - CostOfUnlocked

\* C15 witness: a create_rep came back from its insert after an add_rep and
\* a purchase had changed the balance it started on.
C15_Witness ==
    /\ last.op = "create_rep"
    /\ last.status = 200
    /\ calls.add_rep > StartCalls
    /\ user_store.badges_unlocked
    /\ last.seen > last.before.rep_points
    /\ user_store.rep_points = last.before.rep_points + 1

\* C16: rep_points is never negative, the total debited is at most 150, an
\* unlock flag once True stays True, and no item is successfully purchased a
\* second time.
C16_PointsAndUnlocksSound ==
    /\ [](/\ user_store.rep_points >= 0
          /\ calls.debited <= 150)
    /\ [][/\ user_store.badges_unlocked => user_store'.badges_unlocked
          /\ user_store.premium_unlocked => user_store'.premium_unlocked
          /\ (last'.op = "purchase" /\ last'.body.success /\ calls' # calls)
                => last'.item_id \notin purchased]_vars

\* C16 witness: both items bought, 150 points debited, nothing left.
C16_Witness ==
    /\ user_store.badges_unlocked
    /\ user_store.premium_unlocked
    /\ calls.debited = BadgeCost + PremiumCost
    /\ user_store.rep_points = 0
    /\ purchased = {"badge", "premium"}

(****************************** routing claims *****************************)

\* C17: GET /api/wallet/stats is dispatched to get_wallet_stats and answers
\* the WalletData aggregate (the store calls succeeding).
C17_WalletStatsReachable ==
    (/\ last.op = "http_get"
     /\ last.path = <<"api", "wallet", "stats">>
     /\ last.store_ok)
        => /\ last.endpoint = "get_wallet_stats"
           /\ last.status = 200
           /\ last.body = WalletStats(reps, sessions)

(******************************* pose claims ********************************)

\* The last request was an analyze-pose call.
PoseDone == last.op = "analyze_pose"

\* The last analyze-pose call got a reply and parsed it.
PoseParsed == PoseDone /\ last.parsed

\* C12: when the inference call raises or no credential is configured,
\* analyze-pose answers status 200 with position unknown, shoulder_y 0.5,
\* confidence low and the failure description as message, without parsing;
\* with no credential the collaborator is not called.
C12_FailureDegradesGracefully ==
    (PoseDone /\ (last.key = "" \/ last.outcome.raised))
        => /\ last.status = 200
           /\ last.body.position = "unknown"
           /\ FloatEq(last.body.shoulder_y, Float(1, 2))
           /\ last.body.confidence = "low"
           /\ last.body.message =
                  [text |-> IF last.key = "" THEN "AI key not configured"
                            ELSE last.outcome.e.args]
           /\ ~last.parsed
           /\ last.body.raw_response = << >>
           /\ last.key = "" => ~last.sent

\* C12 happens: a configured call was sent, raised, and was answered with
\* the exception's description.
C12_Witness ==
    /\ PoseDone
    /\ last.key # ""
    /\ last.sent
    /\ last.outcome.raised
    /\ last.body.message = [text |-> "network unreachable"]

\* The (position, confidence) the priority rule gives for a lower-cased text.
PoseByPriority(text) ==
    IF Contains(text, PositionUp) \/ Contains(text, PositionUpTight)
    THEN <<"up", "high">>
    ELSE IF Contains(text, PositionDown) \/ Contains(text, PositionDownTight)
    THEN <<"down", "high">>
    ELSE IF Contains(text, Up) /\ ~Contains(text, Down)
    THEN <<"up", "medium">>
    ELSE IF Contains(text, Down) /\ ~Contains(text, Up)
    THEN <<"down", "medium">>
    ELSE <<"unknown", "low">>

\* C13: for every reply, (position, confidence) follows the priority rule
\* over the lower-cased text, is one of the five pairs, and position is
\* unknown exactly when confidence is low.
C13_PositionByPriority ==
    PoseParsed
        => LET pose == <<last.body.position, last.body.confidence>>
           IN  /\ pose = PoseByPriority(Lower(last.outcome.response))
               /\ pose \in { <<"up", "high">>, <<"down", "high">>, <<"up", "medium">>,
                             <<"down", "medium">>, <<"unknown", "low">> }
               /\ (last.body.position = "unknown") <=> (last.body.confidence = "low")

\* C13 happens: a reply carrying both explicit markers, the down marker
\* first, was parsed as (up, high).
C13_Witness ==
    /\ PoseParsed
    /\ Contains(Lower(last.outcome.response), PositionDownTight)
    /\ Contains(Lower(last.outcome.response), PositionUpTight)
    /\ Find(Lower(last.outcome.response), PositionDownTight)
           < Find(Lower(last.outcome.response), PositionUpTight)
    /\ last.body.position = "up"
    /\ last.body.confidence = "high"

\* The rest of the line after the first shoulder_y: marker.
RestOfLine(text) ==
    LET rest == SubSeq(text, Find(text, ShoulderMarker) + Len(ShoulderMarker), Len(text))
        eol == Find(rest, Newline)
    IN  IF eol = 0 THEN rest ELSE SubSeq(rest, 1, eol - 1)

\* x clamped into [0, 1].
Clamped(x) ==
    IF x.num < 0 THEN Float(0, 1) ELSE IF x.num > x.den THEN Float(1, 1) ELSE x

\* C14: shoulder_y lies in [0, 1]; when the reply contains shoulder_y: and
\* the rest of that line parses as a number, it is that number clamped into
\* [0, 1]; when the marker is absent or the rest does not parse, it is 0.5.
\* (A rest of line that reads nan is left to give any value of the range.)
C14_ShoulderYClampedOrDefault ==
    PoseDone
        => LET y == last.body.shoulder_y
               text == Lower(last.outcome.response)
               token == ParseFloat(RestOfLine(text))
           IN  /\ ~y.nan /\ 0 <= y.num /\ y.num <= y.den
               /\ last.parsed =>
                     IF Contains(text, ShoulderMarker) /\ token.ok
                     THEN token.value.nan \/ FloatEq(y, Clamped(token.value))
                     ELSE FloatEq(y, Float(1, 2))

====
